---- MODULE Spec2Model ----
(***************************************************************************)
(* A model of fiml.py: FIML estimation of the mean and the covariance of   *)
(* data with missing values.                                               *)
(*                                                                         *)
(* Arrays are functions over 0..n-1, as in the source (0-based indices).   *)
(* A matrix is a function 0..n-1 -> (0..n-1 -> value).  Array elements are *)
(* small integers standing for the float64 numbers that hold them exactly. *)
(* The source is Python 2: `/` between two ints is the floor division, and *)
(* a float division by 0.0 raises ZeroDivisionError.                       *)
(*                                                                         *)
(* numpy is modelled by what it returns on these arrays: slices and zip    *)
(* truncate, np.linalg.inv raises LinAlgError on a singular matrix, a      *)
(* negative float64 to the power -0.5 is nan, and the determinant and the  *)
(* inverse of the 0 x 0 matrix are 1 and the 0 x 0 matrix.  A density is   *)
(* kept as its factors and a sum of logs as the sequence of its terms, so  *)
(* that no rounding is invented.                                           *)
(*                                                                         *)
(* A behaviour is one call of the module: _pack_params then _unpack_params *)
(* on its result, _unpack_params then _pack_params on its result, one call *)
(* of _obj_func, or one call of fiml.                                      *)
(***************************************************************************)
EXTENDS Integers, Sequences, FiniteSets, TLC

VARIABLES dim, pc, err, calls,
          arg_mean, arg_cov, arg_params,
          params, mean, cov,
          data, bias, objval, lls, result, ret

vars == <<dim, pc, err, calls, arg_mean, arg_cov, arg_params,
          params, mean, cov, data, bias, objval, lls, result, ret>>

\* ------------------------------------------------------------------ bounds
MaxDim == 2
MaxCells == 6

\* The entries of the arrays handed to the codec: means and covariances
\* differ, and no entry of a parameter vector is the 0 of np.zeros.
MeanVals == {3, 4}
CovVals == {0, 1}
VecVals == {1, 2}

\* ----------------------------------------------------------- numpy arrays
Empty == << >>

len(v) == Cardinality(DOMAIN v)

Min(a, b) == IF a < b THEN a ELSE b

\* np.zeros(n)
np_zeros(n) == [i \in 0..(n - 1) |-> 0]

\* np.zeros((n, m))
np_zeros2(n, m) == [i \in 0..(n - 1) |-> [j \in 0..(m - 1) |-> 0]]

\* np.eye(n)
np_eye(n) == [i \in 0..(n - 1) |-> [j \in 0..(n - 1) |-> IF i = j THEN 1 ELSE 0]]

\* v[a:b] for 0 <= a <= b: the slice stops at the end of v without an error.
Slice(v, a, b) ==
    LET stop == Min(b, len(v))
    IN  [i \in 0..(stop - a - 1) |-> v[a + i]]

\* v[a:]
SliceFrom(v, a) == Slice(v, a, len(v))

\* m[i, j] = v
SetItem2(m, i, j, v) == [m EXCEPT ![i] = [@ EXCEPT ![j] = v]]

\* np.tril_indices(n), as the sequence (1-based) of the pairs <<i, j>> that
\* zip(*np.tril_indices(n)) yields: row-major, i from 0 to n-1, j from 0 to i.
RECURSIVE np_tril_indices(_)
np_tril_indices(n) ==
    IF n <= 0 THEN << >>
    ELSE np_tril_indices(n - 1) \o [j \in 1..n |-> <<n - 1, j - 1>>]

\* ------------------------------------------------------------------ codec
\* params[:dim] = mean: numpy broadcasts a length-1 value and refuses any
\* other length that is not the slice's.
AssignHead(p, n, m) ==
    IF len(m) = n THEN [kind |-> "ok", val |-> [i \in DOMAIN p |-> IF i < n THEN m[i] ELSE p[i]]]
    ELSE IF len(m) = 1 THEN [kind |-> "ok", val |-> [i \in DOMAIN p |-> IF i < n THEN m[0] ELSE p[i]]]
    ELSE [kind |-> "raise", exc |-> "ValueError"]

\* The loop of _pack_params: zip(range(ntri), *np.tril_indices(dim)), from
\* position p on.
RECURSIVE PackLoop(_, _, _, _, _, _)
PackLoop(p, ntri, tril, d, c, acc) ==
    IF p >= Min(ntri, Len(tril)) THEN acc
    ELSE LET i == tril[p + 1][1]
             j == tril[p + 1][2]
         IN  PackLoop(p + 1, ntri, tril, d, c, [acc EXCEPT ![d + p] = c[i][j]])

RECURSIVE PackLoopTransposed(_, _, _, _, _, _)
PackLoopTransposed(p, ntri, tril, d, c, acc) ==
    IF p >= Min(ntri, Len(tril)) THEN acc
    ELSE LET i == tril[p + 1][1]
             j == tril[p + 1][2]
         IN  PackLoopTransposed(p + 1, ntri, tril, d, c, [acc EXCEPT ![d + p] = c[j][i]])

PackTransposed(d, m, c) ==
    LET ntri == (d * (d + 1)) \div 2
        head == AssignHead(np_zeros(d + ntri), d, m)
    IN  IF head.kind = "raise" THEN head
        ELSE [kind |-> "ok",
              val |-> PackLoopTransposed(0, ntri, np_tril_indices(d), d, c, head.val)]

PackNoLastEntry(d, m, c) ==
    LET ntri == (d * (d + 1)) \div 2
        head == AssignHead(np_zeros(d + ntri), d, m)
    IN  IF head.kind = "raise" THEN head
        ELSE [kind |-> "ok",
              val |-> PackLoop(0, ntri - 1, np_tril_indices(d), d, c, head.val)]

_pack_params(d, m, c) ==
    LET ntri == (d * (d + 1)) \div 2
        head == AssignHead(np_zeros(d + ntri), d, m)
    IN  IF head.kind = "raise" THEN head
        ELSE [kind |-> "ok",
              val |-> PackLoop(0, ntri, np_tril_indices(d), d, c, head.val)]

\* The loop of _unpack_params: zip(params[dim:], *np.tril_indices(dim)), from
\* position p on; zip stops at the shorter of its arguments.
RECURSIVE UnpackLoop(_, _, _, _)
UnpackLoop(p, rest, tril, acc) ==
    IF p >= Min(len(rest), Len(tril)) THEN acc
    ELSE LET v == rest[p]
             i == tril[p + 1][1]
             j == tril[p + 1][2]
         IN  UnpackLoop(p + 1, rest, tril, SetItem2(SetItem2(acc, i, j, v), j, i, v))

RECURSIVE UnpackLoopNoMirror(_, _, _, _)
UnpackLoopNoMirror(p, rest, tril, acc) ==
    IF p >= Min(len(rest), Len(tril)) THEN acc
    ELSE LET v == rest[p]
             i == tril[p + 1][1]
             j == tril[p + 1][2]
         IN  UnpackLoopNoMirror(p + 1, rest, tril, SetItem2(acc, i, j, v))

UnpackOffByOne(d, p) ==
    [mean |-> Slice(p, 0, d),
     cov |-> UnpackLoop(0, SliceFrom(p, d + 1), np_tril_indices(d), np_zeros2(d, d))]

UnpackNoMirror(d, p) ==
    [mean |-> Slice(p, 0, d),
     cov |-> UnpackLoopNoMirror(0, SliceFrom(p, d), np_tril_indices(d), np_zeros2(d, d))]

_unpack_params(d, p) ==
    [mean |-> Slice(p, 0, d),
     cov |-> UnpackLoop(0, SliceFrom(p, d), np_tril_indices(d), np_zeros2(d, d))]

\* ------------------------------------------------------------- likelihood
\* A cell of the data: a number, or np.nan for a missing value.
Num(v) == [isnan |-> FALSE, val |-> v]

NaN == [isnan |-> TRUE, val |-> 0]

\* ~np.isnan(x)
NotIsNan(x) == [i \in DOMAIN x |-> ~x[i].isnan]

Append0(v, e) == [i \in 0..len(v) |-> IF i < len(v) THEN v[i] ELSE e]

\* v[mask] for a boolean mask of the length of v: the entries of v where the
\* mask is True, in the order of v.
RECURSIVE MaskTo(_, _, _)
MaskTo(v, mask, n) ==
    IF n = 0 THEN Empty
    ELSE LET head == MaskTo(v, mask, n - 1)
         IN  IF mask[n - 1] THEN Append0(head, v[n - 1]) ELSE head

BoolIndex(v, mask) == MaskTo(v, mask, len(v))

\* m[:, mask]
BoolIndexCols(m, mask) == [r \in DOMAIN m |-> BoolIndex(m[r], mask)]

RECURSIVE SumTo(_, _)
SumTo(f, n) == IF n = 0 THEN 0 ELSE SumTo(f, n - 1) + f[n - 1]

Sign(n) == IF n % 2 = 0 THEN 1 ELSE -1

\* m without its row r and its column c
Minor(m, k, r, c) ==
    [i \in 0..(k - 2) |->
        [j \in 0..(k - 2) |-> m[IF i < r THEN i ELSE i + 1][IF j < c THEN j ELSE j + 1]]]

\* The determinant by the expansion along row 0; the empty product is 1.
RECURSIVE Laplace(_, _)
Laplace(m, k) ==
    IF k = 0 THEN 1
    ELSE IF k = 1 THEN m[0][0]
    ELSE SumTo([c \in 0..(k - 1) |->
                   Sign(c) * m[0][c] * Laplace(Minor(m, k, 0, c), k - 1)], k)

DetEmptyIsZero(m, k) == IF k = 0 THEN 0 ELSE Laplace(m, k)

\* np.linalg.det of a k x k matrix; the determinant of the 0 x 0 matrix is 1.
np_linalg_det(m, k) == IF k = 0 THEN 1 ELSE Laplace(m, k)

\* np.linalg.inv of a k x k matrix, as the adjugate over the determinant;
\* LinAlgError("Singular matrix") when the matrix is singular.  The inverse
\* of the 0 x 0 matrix is the 0 x 0 matrix.
np_linalg_inv(m, k) ==
    IF k = 0 THEN [kind |-> "ok", adj |-> Empty, den |-> 1]
    ELSE IF Laplace(m, k) = 0 THEN [kind |-> "raise", exc |-> "LinAlgError"]
    ELSE [kind |-> "ok",
          adj |-> [i \in 0..(k - 1) |->
                      [j \in 0..(k - 1) |->
                          Sign(i + j) * Laplace(Minor(m, k, j, i), k - 1)]],
          den |-> Laplace(m, k)]

\* xshift.dot(inv).dot(xshift), the numerator over inv.den
QuadForm(xshift, adj, k) ==
    SumTo([i \in 0..(k - 1) |->
              SumTo([j \in 0..(k - 1) |-> xshift[i] * adj[i][j] * xshift[j]], k)], k)

\* The density t1 * t2 * exp(t3) is kept as its three factors:
\*   t1 = (2 pi) ** (-0.5 * k), t2 = det ** (-0.5), t3 = -0.5 * qnum / qden.
\* np.linalg.inv raises on a singular matrix; otherwise a negative
\* determinant makes t2, and the product, nan, and a zero one makes them inf.
_pdf_normal(x, m, c) ==
    LET k == len(x)
        xshift == [i \in DOMAIN x |-> x[i] - m[i]]
        det == np_linalg_det(c, k)
        inv == np_linalg_inv(c, k)
    IN  IF inv.kind = "raise" THEN inv
        ELSE IF det < 0 THEN [kind |-> "nan"]
        ELSE IF det = 0 THEN [kind |-> "inf"]
        ELSE [kind |-> "val", k |-> k, det |-> det,
              qnum |-> QuadForm(xshift, inv.adj, k), qden |-> inv.den]

\* t1 = 1.0, t2 = 1.0 and exp(t3) = 1.0: the density is exactly 1.0.
IsOne(p) == p.k = 0 /\ p.det = 1 /\ p.qnum = 0

\* np.log
np_log(p) ==
    IF p.kind = "val"
    THEN IF IsOne(p) THEN [kind |-> "num", val |-> 0]
         ELSE [kind |-> "log", of |-> p]
    ELSE p

_log_likelihood(x, m, c) == np_log(_pdf_normal(x, m, c))

\* objval += ll, objval being the sequence of the terms added to 0.0
Add(acc, ll) ==
    IF acc.kind = "raise" THEN acc
    ELSE IF ll.kind = "raise" THEN ll
    ELSE IF acc.kind \in {"nan", "inf"} THEN acc
    ELSE IF ll.kind \in {"nan", "inf"} THEN ll
    ELSE IF ll.kind = "num" THEN acc
    ELSE [kind |-> "sum", terms |-> Append(acc.terms, ll.of)]

\* -objval
Neg(v) ==
    IF v.kind = "sum" THEN [kind |-> "neg_sum", terms |-> v.terms]
    ELSE v

Values(x) == [i \in DOMAIN x |-> x[i].val]

\* The term of row x in the loop of _obj_func.
RowTerm(x, m, c) ==
    LET obs == NotIsNan(x)
    IN  _log_likelihood(Values(BoolIndex(x, obs)), BoolIndex(m, obs),
                        BoolIndexCols(BoolIndex(c, obs), obs))

\* The loop of _obj_func over the rows n, n+1, ... of data; an exception
\* ends it.
RECURSIVE ObjLoop(_, _, _, _, _)
ObjLoop(n, rows, m, c, acc) ==
    IF n >= len(rows) \/ acc.kind = "raise" THEN acc
    ELSE ObjLoop(n + 1, rows, m, c, Add(acc, RowTerm(rows[n], m, c)))

ObjNotNegated(p, d, rows) ==
    LET u == _unpack_params(d, p)
    IN  ObjLoop(0, rows, u.mean, u.cov, [kind |-> "sum", terms |-> << >>])

_obj_func(p, d, rows) ==
    LET u == _unpack_params(d, p)
    IN  Neg(ObjLoop(0, rows, u.mean, u.cov, [kind |-> "sum", terms |-> << >>]))

\* ------------------------------------------------- the codec, call by call
\* dim + dim * (dim + 1) / 2
NParams(d) == d + (d * (d + 1)) \div 2

Vectors(n, S) == [0..(n - 1) -> S]

Matrices(n, S) == [0..(n - 1) -> [0..(n - 1) -> S]]

NoValue == [kind |-> "none"]

ParamVals == {0, 1}

Cells == {NaN, Num(1)}

\* The vectors fmin hands to the objective and returns: the shape of x0.
Candidates(d) == Vectors(NParams(d), ParamVals)

\* The arrays of shape (size, d) of at most MaxCells cells, size from 0 on.
Datasets(d) == UNION {Vectors(n, Vectors(d, Cells)) : n \in 0..(MaxCells \div d)}

\* A call of _pack_params followed by a call of _unpack_params on its result.
InitPackFirst ==
    /\ dim \in 1..MaxDim
    /\ pc = "pack"
    /\ arg_mean \in Vectors(dim, MeanVals)
    /\ arg_cov \in Matrices(dim, CovVals)
    /\ arg_params = Empty
    /\ mean = arg_mean
    /\ cov = arg_cov
    /\ params = Empty
    /\ data = Empty
    /\ bias = FALSE

\* A call of _unpack_params, on a vector of any length, followed by a call of
\* _pack_params on its result.
InitUnpackFirst ==
    /\ dim \in 1..MaxDim
    /\ pc = "unpack"
    /\ \E n \in 0..(NParams(dim) + 1) : arg_params \in Vectors(n, VecVals)
    /\ arg_mean = Empty
    /\ arg_cov = Empty
    /\ mean = Empty
    /\ cov = Empty
    /\ params = arg_params
    /\ data = Empty
    /\ bias = FALSE

\* A call of _obj_func, as fmin makes it.
InitObjFunc ==
    /\ dim \in 1..MaxDim
    /\ pc = "_obj_func"
    /\ arg_params \in Candidates(dim)
    /\ data \in Datasets(dim)
    /\ arg_mean = Empty
    /\ arg_cov = Empty
    /\ mean = Empty
    /\ cov = Empty
    /\ params = arg_params
    /\ bias = FALSE

\* A call of fiml.
InitFiml ==
    /\ dim \in 1..MaxDim
    /\ pc = "fiml"
    /\ data \in Datasets(dim)
    /\ bias \in BOOLEAN
    /\ arg_params = Empty
    /\ arg_mean = Empty
    /\ arg_cov = Empty
    /\ mean = Empty
    /\ cov = Empty
    /\ params = Empty

Init ==
    /\ InitPackFirst \/ InitUnpackFirst \/ InitObjFunc \/ InitFiml
    /\ err = "none"
    /\ calls = << >>
    /\ objval = NoValue
    /\ lls = << >>
    /\ result = Empty
    /\ ret = NoValue

NextCall(other) == IF Len(calls) = 0 THEN other ELSE "done"

CallPack ==
    /\ pc = "pack"
    /\ LET r == _pack_params(dim, mean, cov)
       IN  IF r.kind = "ok"
           THEN /\ params' = r.val
                /\ pc' = NextCall("unpack")
                /\ err' = err
           ELSE /\ params' = params
                /\ pc' = "raised"
                /\ err' = r.exc
    /\ calls' = Append(calls, "pack")
    /\ UNCHANGED <<dim, arg_mean, arg_cov, arg_params, mean, cov,
                   data, bias, objval, lls, result, ret>>

CallUnpack ==
    /\ pc = "unpack"
    /\ LET r == _unpack_params(dim, params)
       IN  /\ mean' = r.mean
           /\ cov' = r.cov
    /\ pc' = NextCall("pack")
    /\ calls' = Append(calls, "unpack")
    /\ UNCHANGED <<dim, err, arg_mean, arg_cov, arg_params, params,
                   data, bias, objval, lls, result, ret>>

\* The terms of the rows the loop of _obj_func reached, in order.
RECURSIVE RowTerms(_, _, _, _, _)
RowTerms(n, rows, m, c, acc) ==
    IF n >= len(rows) THEN acc
    ELSE LET t == RowTerm(rows[n], m, c)
         IN  IF t.kind = "raise" THEN Append(acc, t)
             ELSE RowTerms(n + 1, rows, m, c, Append(acc, t))

CallObjFunc ==
    /\ pc = "_obj_func"
    /\ LET u == _unpack_params(dim, params)
           r == _obj_func(params, dim, data)
       IN  /\ mean' = u.mean
           /\ cov' = u.cov
           /\ lls' = RowTerms(0, data, u.mean, u.cov, << >>)
           /\ IF r.kind = "raise"
              THEN /\ pc' = "raised"
                   /\ err' = r.exc
                   /\ objval' = objval
              ELSE /\ pc' = "done"
                   /\ err' = err
                   /\ objval' = r
    /\ calls' = Append(calls, "_obj_func")
    /\ UNCHANGED <<dim, arg_mean, arg_cov, arg_params, params, data, bias,
                   result, ret>>

\* size / (size - 1.0): a Python float division, ZeroDivisionError when
\* the divisor is 0.0.
ScaleInverted(size) ==
    IF size = 0 THEN [kind |-> "raise", exc |-> "ZeroDivisionError"]
    ELSE [kind |-> "ok", num |-> size - 1, den |-> size]

ScaleInf(size) ==
    IF size - 1 = 0 THEN [kind |-> "ok", num |-> 1, den |-> 0]
    ELSE [kind |-> "ok", num |-> size, den |-> size - 1]

BiasScale(size) ==
    IF size - 1 = 0 THEN [kind |-> "raise", exc |-> "ZeroDivisionError"]
    ELSE [kind |-> "ok", num |-> size, den |-> size - 1]

\* cov * scale, entry by entry, each product kept as the fraction num / den
Scaled(c, scale) ==
    [i \in DOMAIN c |->
        [j \in DOMAIN c[i] |-> [num |-> c[i][j] * scale.num, den |-> scale.den]]]

\* fiml(data, bias).  sp.optimize.fmin is the collaborator: it returns a
\* vector r of the shape of params0 at which it has evaluated _obj_func, and
\* an exception of _obj_func passes through it.
CallFiml ==
    /\ pc = "fiml"
    /\ LET size == len(data)
           params0 == _pack_params(dim, np_zeros(dim), np_eye(dim)).val
       IN  /\ params' = params0
           /\ \E r \in Vectors(len(params0), ParamVals) :
                LET o == _obj_func(r, dim, data)
                    u == _unpack_params(dim, r)
                    scale == BiasScale(size)
                IN  IF o.kind = "raise"
                    THEN /\ pc' = "raised"
                         /\ err' = o.exc
                         /\ UNCHANGED <<result, ret>>
                    ELSE IF bias
                    THEN /\ pc' = "done"
                         /\ err' = err
                         /\ result' = r
                         /\ ret' = [kind |-> "ok", mean |-> u.mean, cov |-> u.cov]
                    ELSE IF scale.kind = "raise"
                    THEN /\ pc' = "raised"
                         /\ err' = scale.exc
                         /\ result' = r
                         /\ ret' = ret
                    ELSE /\ pc' = "done"
                         /\ err' = err
                         /\ result' = r
                         /\ ret' = [kind |-> "ok", mean |-> u.mean,
                                    cov |-> Scaled(u.cov, scale)]
    /\ calls' = Append(calls, "fiml")
    /\ UNCHANGED <<dim, arg_mean, arg_cov, arg_params, mean, cov, data, bias,
                   objval, lls>>

Next == CallPack \/ CallUnpack \/ CallObjFunc \/ CallFiml

Spec == Init /\ [][Next]_vars

\* ------------------------------------------------------------- properties
Indices(d) == 0..(d - 1)

LowerPairs(d) == {ij \in Indices(d) \X Indices(d) : ij[2] <= ij[1]}

\* The place of the pair (i, j), j <= i, in the row-major enumeration of the
\* lower triangle: the number of pairs before it.
Rank(d, i, j) ==
    Cardinality({ab \in LowerPairs(d) : ab[1] < i \/ (ab[1] = i /\ ab[2] < j)})

\* The place of the free parameter that holds entry (i, j) of a symmetric matrix
Place(d, i, j) == IF j <= i THEN d + Rank(d, i, j) ELSE d + Rank(d, j, i)

IsVector(v, n) == DOMAIN v = Indices(n)

IsMatrix(c, d) == DOMAIN c = Indices(d) /\ \A i \in Indices(d) : DOMAIN c[i] = Indices(d)

Symmetric(c, d) == \A i, j \in Indices(d) : c[i][j] = c[j][i]

ValidLength(v, d) == 2 * (len(v) - d) = d * (d + 1)

\* C1: unpacking the packing of a mean and a symmetric covariance returns
\* exactly that mean and that covariance.
C1_RoundTrip ==
    (calls = <<"pack", "unpack">> /\ Symmetric(arg_cov, dim))
        => (mean = arg_mean /\ cov = arg_cov)

C1_Witness ==
    /\ calls = <<"pack", "unpack">>
    /\ dim = 2
    /\ Symmetric(arg_cov, dim)
    /\ arg_cov[1][0] = 1
    /\ arg_cov[0][0] = 0
    /\ arg_mean[0] # arg_mean[1]
    /\ cov = arg_cov

\* C2, as claimed: _unpack_params on a vector of a wrong length fails with
\* an error and returns no pair.
C2_RejectsBadLength ==
    (calls = <<"unpack">> /\ ~ValidLength(arg_params, dim)) => pc = "raised"

\* C2, amended: _unpack_params on a vector of a wrong length raises nothing
\* and returns a pair: the mean is the entries before dim that exist, the
\* covariance is the symmetric dim x dim matrix of the free parameters that
\* exist, 0 where the vector is too short; entries past the last free
\* parameter are ignored.
C2_AcceptsBadLength ==
    (calls = <<"unpack">> /\ ~ValidLength(arg_params, dim))
        => /\ pc = "pack"
           /\ err = "none"
           /\ IsVector(mean, Min(dim, len(arg_params)))
           /\ \A i \in DOMAIN mean : mean[i] = arg_params[i]
           /\ IsMatrix(cov, dim)
           /\ \A i, j \in Indices(dim) :
                cov[i][j] = IF Place(dim, i, j) < len(arg_params)
                            THEN arg_params[Place(dim, i, j)]
                            ELSE 0

C2_Witness ==
    /\ calls = <<"unpack">>
    /\ dim = 2
    /\ len(arg_params) = 4
    /\ pc = "pack"
    /\ cov[1][0] = arg_params[3]
    /\ cov[0][1] = arg_params[3]
    /\ cov[1][1] = 0

\* C3: the covariance _unpack_params returns for a vector of the valid
\* length is a symmetric dim x dim matrix, and so are the covariance
\* _obj_func evaluates and the covariance fiml returns.
C3_Symmetry ==
    /\ (Len(calls) >= 1 /\ calls[1] = "unpack" /\ ValidLength(arg_params, dim))
          => (IsMatrix(cov, dim) /\ Symmetric(cov, dim))
    /\ calls = <<"_obj_func">> => (IsMatrix(cov, dim) /\ Symmetric(cov, dim))
    /\ (calls = <<"fiml">> /\ pc = "done")
          => (IsMatrix(ret.cov, dim) /\ Symmetric(ret.cov, dim))

C3_Witness ==
    /\ calls = <<"unpack">>
    /\ dim = 2
    /\ ValidLength(arg_params, dim)
    /\ arg_params[3] = 2
    /\ arg_params[2] = 1
    /\ cov[0][1] = 2
    /\ cov[1][0] = 2

\* C7: _pack_params returns a vector of length dim + dim*(dim+1)/2 whose
\* first dim entries are the mean and whose entry dim + p is cov[i][j] for
\* the p-th pair (i, j) of the row-major enumeration of the lower triangle.
C7_Layout ==
    calls = <<"pack">>
        => /\ pc = "unpack"
           /\ IsVector(params, len(params))
           /\ ValidLength(params, dim)
           /\ \A i \in Indices(dim) : params[i] = arg_mean[i]
           /\ \A ij \in LowerPairs(dim) :
                params[dim + Rank(dim, ij[1], ij[2])] = arg_cov[ij[1]][ij[2]]

C7_Witness ==
    /\ calls = <<"pack">>
    /\ dim = 2
    /\ arg_cov[1][0] = 1
    /\ arg_cov[0][1] = 0
    /\ arg_cov[1][1] = 0
    /\ arg_cov[0][0] = 0
    /\ params[3] = 1
    /\ len(params) = 5

\* C9: packing the unpacking of a vector of the valid length returns
\* exactly that vector.
C9_ReverseRoundTrip ==
    (calls = <<"unpack", "pack">> /\ ValidLength(arg_params, dim))
        => (pc = "done" /\ params = arg_params)

C9_Witness ==
    /\ calls = <<"unpack", "pack">>
    /\ dim = 2
    /\ ValidLength(arg_params, dim)
    /\ arg_params[2] = 1
    /\ arg_params[3] = 2
    /\ arg_params[4] = 2
    /\ params = arg_params

\* The observed indices of row x, and the a-th of them in index order
Observed(x) == {i \in DOMAIN x : ~x[i].isnan}

NthObserved(x, a) ==
    CHOOSE i \in Observed(x) : Cardinality({o \in Observed(x) : o < i}) = a

\* The mean and the covariance a parameter vector p of the valid length stands for
MeanOf(p, d) == [i \in Indices(d) |-> p[i]]

CovOf(p, d) == [i \in Indices(d) |-> [j \in Indices(d) |-> p[Place(d, i, j)]]]

\* The values of row x, the mean and the rows and columns of the covariance
\* at the observed indices of x, in index order
ObservedValues(x) ==
    [a \in Indices(Cardinality(Observed(x))) |-> x[NthObserved(x, a)].val]

ObservedMean(x, m) ==
    [a \in Indices(Cardinality(Observed(x))) |-> m[NthObserved(x, a)]]

ObservedCov(x, c) ==
    [a \in Indices(Cardinality(Observed(x))) |->
        [b \in Indices(Cardinality(Observed(x))) |->
            c[NthObserved(x, a)][NthObserved(x, b)]]]

\* The leading principal minors of a k x k matrix
LeadingMinor(c, k, n) == Laplace([i \in Indices(n) |-> [j \in Indices(n) |-> c[i][j]]], n)

Singular(c, k) == k > 0 /\ Laplace(c, k) = 0

NotPositiveDefinite(c, k) == \E n \in 1..k : LeadingMinor(c, k, n) <= 0

DegenerateRow(x, c) ==
    LET k == Cardinality(Observed(x))
    IN  Singular(ObservedCov(x, c), k) \/ NotPositiveDefinite(ObservedCov(x, c), k)

\* C4: whenever the covariance restricted to the observed coordinates of
\* some row is singular or not positive-definite, _obj_func still returns a
\* value and raises nothing.
C4_DegeneracyReturns ==
    (/\ calls = <<"_obj_func">>
     /\ \E n \in DOMAIN data : DegenerateRow(data[n], CovOf(arg_params, dim)))
        => (pc = "done" /\ err = "none")

C6_BiasScaling ==
    (calls = <<"fiml">> /\ pc = "done" /\ len(data) > 1)
        => /\ ret.mean = MeanOf(result, dim)
           /\ IsMatrix(ret.cov, dim)
           /\ IF bias
              THEN ret.cov = CovOf(result, dim)
              ELSE \A i, j \in Indices(dim) :
                      /\ ret.cov[i][j].den # 0
                      /\ ret.cov[i][j].num * (len(data) - 1)
                            = CovOf(result, dim)[i][j] * len(data) * ret.cov[i][j].den

C6_Witness ==
    /\ calls = <<"fiml">>
    /\ pc = "done"
    /\ ~bias
    /\ len(data) = 3
    /\ dim = 2
    /\ result[3] = 1
    /\ ret.cov[0][1] = [num |-> 3, den |-> 2]
    /\ ret.mean[1] = 1

AllMissing(x) == Observed(x) = {}

\* C8: the log likelihood of a row with every coordinate missing (empty
\* values, empty mean, 0 x 0 covariance) is exactly 0 and raises nothing,
\* so that such a row adds no term to the objective.
C8_DegenerateMarginal ==
    calls = <<"_obj_func">>
        => /\ \A n \in DOMAIN lls :
                AllMissing(data[n - 1]) => lls[n] = [kind |-> "num", val |-> 0]
           /\ (pc = "done" /\ objval.kind = "neg_sum")
                => Len(objval.terms)
                      = Cardinality({n \in DOMAIN data : ~AllMissing(data[n])})

C8_Witness ==
    /\ calls = <<"_obj_func">>
    /\ pc = "done"
    /\ dim = 2
    /\ len(data) = 2
    /\ AllMissing(data[0])
    /\ ~AllMissing(data[1])
    /\ lls[1] = [kind |-> "num", val |-> 0]
    /\ objval.kind = "neg_sum"
    /\ Len(objval.terms) = 1

\* The log density of row n of the data under the parameters p, the row,
\* the mean and the covariance restricted to the observed indices
MarginalLogDensity(n, p, d) ==
    _log_likelihood(ObservedValues(data[n]),
                    ObservedMean(data[n], MeanOf(p, d)),
                    ObservedCov(data[n], CovOf(p, d)))

\* C10: _obj_func returns the negative of the sum, over the rows in order,
\* of the log density of each row restricted to its observed indices (the
\* values, the mean, and the rows and the columns of the covariance alike);
\* an exception of a term is the outcome of the call.
C10_ObjectiveWiring ==
    calls = <<"_obj_func">>
        => LET size == len(data)
               term == [n \in Indices(size) |-> MarginalLogDensity(n, arg_params, dim)]
               logs == SelectSeq([n \in 1..size |-> term[n - 1]],
                                 LAMBDA t : t.kind = "log")
           IN  IF \E n \in Indices(size) : term[n].kind = "raise"
               THEN pc = "raised" /\ err = "LinAlgError"
               ELSE IF \E n \in Indices(size) : term[n].kind = "nan"
               THEN pc = "done" /\ objval = [kind |-> "nan"]
               ELSE /\ pc = "done"
                    /\ objval = [kind |-> "neg_sum",
                                 terms |-> [n \in 1..Len(logs) |-> logs[n].of]]

C10_Witness ==
    /\ calls = <<"_obj_func">>
    /\ pc = "done"
    /\ dim = 2
    /\ len(data) = 3
    /\ Observed(data[0]) = {1}
    /\ Observed(data[1]) = {0}
    /\ Observed(data[2]) = {0, 1}
    /\ MeanOf(arg_params, dim) = [i \in Indices(2) |-> 1 - i]
    /\ CovOf(arg_params, dim) = np_eye(2)
    /\ objval.kind = "neg_sum"
    /\ Len(objval.terms) = 3
    /\ objval.terms[1] = [kind |-> "val", k |-> 1, det |-> 1, qnum |-> 1, qden |-> 1]
    /\ objval.terms[2] = [kind |-> "val", k |-> 1, det |-> 1, qnum |-> 0, qden |-> 1]

====
